---------------------------- MODULE Spec2Model ----------------------------
(***************************************************************************)
(* A model of pennylane_forest.qvm.QVMDevice: construction of the device,  *)
(* pre_measure (basis rotation, program finalisation, execution and state  *)
(* extraction) and the classical post-processing of the measured bits      *)
(* (expval, var, probabilities, sample).                                   *)
(*                                                                         *)
(* Conventions of the model                                                *)
(*   - a Python string is a sequence of one-character strings;             *)
(*   - a real number is an exact rational <<n, d>> in lowest terms with    *)
(*     d > 0 (floating-point rounding is not modelled);                    *)
(*   - a matrix is a sequence of rows; its cache key is the row-major      *)
(*     flattening, as tuple(H.flatten().tolist());                         *)
(*   - the result of a call is a record: a value, an array, None or a      *)
(*     raised error; it stays in `last` until the caller takes it;         *)
(*   - the frontend evaluates one circuit at a time: it applies the gates, *)
(*     sets the observable queue and calls pre_measure, asks for the       *)
(*     statistics, and resets the program before the next circuit;         *)
(*   - the backend is external: a compilation returns an executable or     *)
(*     fails, an execution returns any array of bits of shape              *)
(*     [shots, measured qubits] or fails; qc_calls lists the calls that    *)
(*     pre_measure has made on it for the circuit at hand;                 *)
(*   - the reset of the base class is outside this module: it empties the  *)
(*     program, and may or may not drop the measurement state.             *)
(***************************************************************************)
EXTENDS Integers, Sequences, FiniteSets, TLC

VARIABLES
    constructed,   \* TRUE once QVMDevice.__init__ has returned a device
    num_wires,     \* self.num_wires
    shots,         \* self.shots
    qc,            \* self.qc: the backend, [name |-> ...]
    active_reset,  \* self.active_reset
    eigs,          \* self._eigs: Hkey -> [eigval, eigvec]
    prog,          \* self.prog: [instructions, num_shots]
    obs_queue,     \* self.obs_queue
    state,         \* self.state: measured qubit -> column of bits
    eigh_calls,    \* Hkey -> number of np.linalg.eigh calls made on it
    qc_calls,      \* the calls pre_measure has made on self.qc for this circuit
    last           \* the call that has just returned, with its result

vars == <<constructed, num_wires, shots, qc, active_reset, eigs, prog,
          obs_queue, state, eigh_calls, qc_calls, last>>

devvars == <<constructed, num_wires, shots, qc, active_reset, eigs, prog,
             obs_queue, state, eigh_calls, qc_calls>>

-----------------------------------------------------------------------------
(* Bounds of the model *)

MaxLen == 3      \* longest device string drawn for the constructor
MaxNodes == 2    \* largest topology graph drawn for the constructor
MaxShots == 2    \* largest shot count of a device that is executed
MaxGates == 1    \* most gates the frontend applies before pre_measure
MaxPyqvmShots == 1   \* largest shot count of the pyQVM device that is executed
MaxResetShots == 1   \* largest shot count of a device with active reset on

(* Program constants *)

DefaultShots == 1024

-----------------------------------------------------------------------------
(* Exact rationals *)

Abs(x) == IF x < 0 THEN -x ELSE x

RECURSIVE Gcd(_, _)
Gcd(a, b) == IF b = 0 THEN a ELSE Gcd(b, a % b)

Rat(n, d) ==
    LET g == Gcd(Abs(n), Abs(d))
        s == IF d < 0 THEN -1 ELSE 1
    IN  <<(s * n) \div g, (s * d) \div g>>

RInt(k) == <<k, 1>>
RAdd(x, y) == Rat(x[1] * y[2] + y[1] * x[2], x[2] * y[2])
RSub(x, y) == Rat(x[1] * y[2] - y[1] * x[2], x[2] * y[2])
RMul(x, y) == Rat(x[1] * y[1], x[2] * y[2])
RDivInt(x, k) == Rat(x[1], x[2] * k)

RECURSIVE RSum(_)
RSum(s) == IF s = <<>> THEN RInt(0) ELSE RAdd(s[1], RSum(Tail(s)))

RECURSIVE Pow2(_)
Pow2(n) == IF n = 0 THEN 1 ELSE 2 * Pow2(n - 1)

-----------------------------------------------------------------------------
(* Results of a call *)

Value(r) == [kind |-> "value", v |-> r]
Array(a) == [kind |-> "array", v |-> a]
None == [kind |-> "none"]
Raise(e) == [kind |-> "error", err |-> e]
IsError(r) == r.kind = "error"

Idle == [op |-> "idle"]

-----------------------------------------------------------------------------
(* QVMDevice.__init__ *)

Digits == {"0", "1", "2", "3", "4", "5", "6", "7", "8", "9"}

DigitVal(c) ==
    CASE c = "0" -> 0 [] c = "1" -> 1 [] c = "2" -> 2 [] c = "3" -> 3
      [] c = "4" -> 4 [] c = "5" -> 5 [] c = "6" -> 6 [] c = "7" -> 7
      [] c = "8" -> 8 [] c = "9" -> 9

\* int(s) of a string of decimal digits
RECURSIVE ParseInt(_)
ParseInt(s) ==
    IF s = <<>> THEN 0
    ELSE 10 * ParseInt(SubSeq(s, 1, Len(s) - 1)) + DigitVal(s[Len(s)])

\* the end of the run of digits of s that starts at position i
RECURSIVE DigitRunEnd(_, _)
DigitRunEnd(s, i) ==
    IF i < Len(s) /\ s[i + 1] \in Digits THEN DigitRunEnd(s, i + 1) ELSE i

\* (\d+)(q|Q) matches s at position i: \d+ is greedy, and giving digits back
\* never helps, because the character after a shorter run is a digit
MatchesAt(s, i) ==
    /\ s[i] \in Digits
    /\ LET e == DigitRunEnd(s, i)
       IN  e < Len(s) /\ s[e + 1] \in {"q", "Q"}

\* variant of WireMatch: a group that holds only the digit next to q or Q
WireMatchOneDigit(s) ==
    LET starts == {i \in 1..Len(s) : MatchesAt(s, i)}
    IN  IF starts = {} THEN <<>>
        ELSE LET i == CHOOSE j \in starts : \A k \in starts : j <= k
                 e == DigitRunEnd(s, i)
             IN  SubSeq(s, e, e)

\* re.search(r"(\d+)(q|Q)", device): the leftmost match, as groups()[0], or
\* <<>> standing for None (group 1 is never empty)
WireMatch(s) ==
    LET starts == {i \in 1..Len(s) : MatchesAt(s, i)}
    IN  IF starts = {} THEN <<>>
        ELSE LET i == CHOOSE j \in starts : \A k \in starts : j <= k
             IN  SubSeq(s, i, DigitRunEnd(s, i))

NoKwargs == [k \in {} |-> 0]

\* kwargs.pop(key, None)
Pop(kwargs, key) == [k \in (DOMAIN kwargs) \ {key} |-> kwargs[k]]

\* the name of the quantum computer built for the device argument
QcName(device) == IF device.kind = "graph" THEN <<"d", "e", "v", "i", "c", "e">>
                  ELSE device.name

\* variant of QVMDevice: the shot count is checked after the device argument
QVMDeviceShotsLast(device, shotsArg, kwargs) ==
    IF device.kind = "graph" THEN
        IF shotsArg <= 0 THEN Raise("ValueError: shots")
        ELSE [kind |-> "device", num_wires |-> device.nodes, shots |-> shotsArg,
              kwargs |-> Pop(kwargs, "wires"), name |-> QcName(device)]
    ELSE IF device.kind = "str" THEN
        IF WireMatch(device.name) = <<>> THEN Raise("ValueError: device string")
        ELSE IF shotsArg <= 0 THEN Raise("ValueError: shots")
        ELSE [kind |-> "device", num_wires |-> ParseInt(WireMatch(device.name)),
              shots |-> shotsArg, kwargs |-> Pop(kwargs, "wires"),
              name |-> QcName(device)]
    ELSE Raise("ValueError: device type")

\* the device the constructor yields, or the error it raises
QVMDevice(device, shotsArg, kwargs) ==
    IF shotsArg <= 0 THEN Raise("ValueError: shots")
    ELSE LET kw == Pop(kwargs, "wires") IN
         IF device.kind = "graph" THEN
             [kind |-> "device", num_wires |-> device.nodes, shots |-> shotsArg,
              kwargs |-> kw, name |-> QcName(device)]
         ELSE IF device.kind = "str" THEN
             LET wire_match == WireMatch(device.name) IN
             IF wire_match = <<>> THEN Raise("ValueError: device string")
             ELSE [kind |-> "device", num_wires |-> ParseInt(wire_match),
                   shots |-> shotsArg, kwargs |-> kw, name |-> QcName(device)]
         ELSE Raise("ValueError: device type")

EmptyProgram == [instructions |-> <<>>, num_shots |-> 1]
EmptyMap == [k \in {} |-> 0]

\* the fields of a device that __init__ has just returned
Fresh(d) ==
    /\ constructed = TRUE
    /\ num_wires = d.num_wires
    /\ shots = d.shots
    /\ qc = [name |-> d.name]
    /\ active_reset = FALSE
    /\ eigs = EmptyMap
    /\ prog = EmptyProgram
    /\ obs_queue = <<>>
    /\ state = EmptyMap
    /\ eigh_calls = EmptyMap
    /\ qc_calls = <<>>

\* no device yet
Unconstructed ==
    /\ constructed = FALSE
    /\ num_wires = 0
    /\ shots = 0
    /\ qc = [name |-> <<>>]
    /\ active_reset = FALSE
    /\ eigs = EmptyMap
    /\ prog = EmptyProgram
    /\ obs_queue = <<>>
    /\ state = EmptyMap
    /\ eigh_calls = EmptyMap
    /\ qc_calls = <<>>

\* QVMDevice(device, shots=..., **kwargs) called by the frontend; without a
\* shots keyword the parameter takes its default
Construct(device, shotsGiven, shotsVal, kwargs) ==
    /\ ~constructed
    /\ last = Idle
    /\ LET shotsArg == IF shotsGiven THEN shotsVal ELSE DefaultShots
           r == QVMDevice(device, shotsArg, kwargs)
       IN  /\ last' = [op |-> "init", device |-> device, shotsGiven |-> shotsGiven,
                       shotsArg |-> shotsArg, kwargs |-> kwargs, ret |-> r]
           /\ IF IsError(r)
              THEN UNCHANGED devvars
              ELSE /\ constructed' = TRUE
                   /\ num_wires' = r.num_wires
                   /\ shots' = r.shots
                   /\ qc' = [name |-> r.name]
                   /\ active_reset' = FALSE
                   /\ eigs' = EmptyMap
                   /\ UNCHANGED <<prog, obs_queue, state, eigh_calls, qc_calls>>

-----------------------------------------------------------------------------
(* Inputs of the constructor *)

Chars == {"1", "2", "q", "Q", "-"}

Strings == UNION {[1..n -> Chars] : n \in 0..MaxLen}

Str2qQvm == <<"2", "q", "-", "q", "v", "m">>
Str2qPyqvm == <<"2", "q", "-", "p", "y", "q", "v", "m">>
StrAspen == <<"A", "s", "p", "e", "n", "-", "1", "-", "B">>
StrAspen16 == <<"A", "s", "p", "e", "n", "-", "1", "-", "1", "6", "Q", "-", "A">>

DeviceArgs ==
    {[kind |-> "str", name |-> s] : s \in Strings \cup {Str2qQvm, StrAspen, StrAspen16}}
    \cup {[kind |-> "graph", nodes |-> n] : n \in 0..MaxNodes}
    \cup {[kind |-> "int"]}

ShotArgs == -1..MaxShots

KwargsArgs == {NoKwargs, [k \in {"wires"} |-> 5]}

InitCtor == Unconstructed /\ last = Idle

NextCtor ==
    \E device \in DeviceArgs, g \in BOOLEAN, s \in ShotArgs, kw \in KwargsArgs :
        /\ (~g => s = 1)
        /\ Construct(device, g, s, kw)

SpecCtor == InitCtor /\ [][NextCtor]_vars

-----------------------------------------------------------------------------
(* Hermitian matrices and np.linalg.eigh *)

\* tuple(H.flatten().tolist())
RECURSIVE Flatten(_)
Flatten(H) == IF H = <<>> THEN <<>> ELSE H[1] \o Flatten(Tail(H))

IsDiagonal(H) == \A i, j \in 1..Len(H) : i # j => H[i][j] = 0

\* the integer square root of a perfect square
Isqrt(n) == CHOOSE r \in 0..n : r * r = n

\* where the i-th diagonal entry goes when the diagonal is sorted ascending
Rank(d, i) ==
    Cardinality({j \in 1..Len(d) : d[j] < d[i] \/ (d[j] = d[i] /\ j < i)}) + 1

\* np.linalg.eigh(H): the eigenvalues in ascending order and a matrix whose
\* k-th column is an eigenvector of the k-th eigenvalue.  Computed for
\* diagonal matrices and for real symmetric 2x2 matrices [[a, b], [b, d]]
\* with integer eigenvalues; the columns are left unnormalised (the norm is
\* irrational) and real, so that U.conj().T is the transpose.
Eigh(H) ==
    LET n == Len(H) IN
    IF IsDiagonal(H) THEN
        LET d == [i \in 1..n |-> H[i][i]]
        IN  [eigval |-> [k \in 1..n |-> d[CHOOSE i \in 1..n : Rank(d, i) = k]],
             eigvec |-> [i \in 1..n |-> [k \in 1..n |->
                            IF Rank(d, i) = k THEN 1 ELSE 0]]]
    ELSE
        LET a == H[1][1]
            b == H[1][2]
            d == H[2][2]
            r == Isqrt((a - d) * (a - d) + 4 * b * b)
            w == <<(a + d - r) \div 2, (a + d + r) \div 2>>
        IN  [eigval |-> w,
             eigvec |-> <<<<b, b>>, <<w[1] - a, w[2] - a>>>>]

\* U.conj().T of a real matrix
ConjT(U) == [i \in 1..Len(U) |-> [j \in 1..Len(U) |-> U[j][i]]]

-----------------------------------------------------------------------------
(* The program *)

Angle(a) == [kind |-> "angle", v |-> a]
Matrix(M) == [kind |-> "matrix", v |-> M]

Gate(name, wires, par) == [type |-> "gate", name |-> name, wires |-> wires, par |-> par]
Pragma == [type |-> "pragma", name |-> "INITIAL_REWIRING", arg |-> "PARTIAL"]
RESET == [type |-> "reset"]
Declare(n) == [type |-> "declare", name |-> "ro", memory |-> "BIT", size |-> n]
MEASURE(q, i) == [type |-> "measure", qubit |-> q, ro |-> i]

Range(s) == {s[i] : i \in 1..Len(s)}

\* variant of GetQubits: every wire of the device
GetQubitsOfDevice(instructions) ==
    0..(num_wires - 1)

\* Program.get_qubits(): the qubits some instruction acts on
GetQubits(instructions) ==
    UNION {IF ins.type = "gate" THEN Range(ins.wires)
           ELSE IF ins.type = "measure" THEN {ins.qubit}
           ELSE {} : ins \in Range(instructions)}

\* the program has been through pre_measure since the device was reset
Finalized(p) == \E ins \in Range(p.instructions) : ins.type = "declare"

\* self.apply(operation, wires, par): the gate is appended to the program
apply(instructions, operation, wires, par) ==
    Append(instructions, Gate(operation, wires, par))

-----------------------------------------------------------------------------
(* pre_measure *)

Observable(name, wires, parameters) ==
    [name |-> name, wires |-> wires, parameters |-> parameters]

\* variant of Rotate: a Hermitian matrix is diagonalised every time
RotateNoCache(acc, e) ==
    LET wires == e.wires IN
    IF e.name = "PauliX" THEN
        [acc EXCEPT !.instrs = apply(@, "Hadamard", wires, <<>>)]
    ELSE IF e.name = "PauliY" THEN
        [acc EXCEPT !.instrs =
            apply(apply(apply(@, "PauliZ", wires, <<>>), "S", wires, <<>>),
                  "Hadamard", wires, <<>>)]
    ELSE IF e.name = "Hadamard" THEN
        [acc EXCEPT !.instrs = apply(@, "RY", wires, <<Angle("-pi/4")>>)]
    ELSE IF e.name = "Hermitian" THEN
        LET H == e.parameters[1]
            Hkey == Flatten(H)
            wU == Eigh(H)
            n == IF Hkey \in DOMAIN acc.calls THEN acc.calls[Hkey] ELSE 0
        IN  [instrs |-> apply(acc.instrs, "QubitUnitary", wires,
                              <<Matrix(ConjT(wU.eigvec))>>),
             eigs |-> [k \in DOMAIN acc.eigs \cup {Hkey} |->
                          IF k = Hkey THEN wU ELSE acc.eigs[k]],
             calls |-> [k \in DOMAIN acc.calls \cup {Hkey} |->
                          IF k = Hkey THEN n + 1 ELSE acc.calls[k]]]
    ELSE acc

\* variant of Rotate: the three gates of PauliY are appended in another order
RotateYOrder(acc, e) ==
    LET wires == e.wires IN
    IF e.name = "PauliX" THEN
        [acc EXCEPT !.instrs = apply(@, "Hadamard", wires, <<>>)]
    ELSE IF e.name = "PauliY" THEN
        [acc EXCEPT !.instrs =
            apply(apply(apply(@, "S", wires, <<>>), "PauliZ", wires, <<>>),
                  "Hadamard", wires, <<>>)]
    ELSE IF e.name = "Hadamard" THEN
        [acc EXCEPT !.instrs = apply(@, "RY", wires, <<Angle("-pi/4")>>)]
    ELSE IF e.name = "Hermitian" THEN
        LET H == e.parameters[1]
            Hkey == Flatten(H)
        IN  IF Hkey \in DOMAIN acc.eigs THEN
                LET U == acc.eigs[Hkey].eigvec
                IN  [acc EXCEPT !.instrs =
                        apply(@, "QubitUnitary", wires, <<Matrix(ConjT(U))>>)]
            ELSE
                LET wU == Eigh(H)
                IN  [instrs |-> apply(acc.instrs, "QubitUnitary", wires,
                                      <<Matrix(ConjT(wU.eigvec))>>),
                     eigs |-> [k \in DOMAIN acc.eigs \cup {Hkey} |->
                                  IF k = Hkey THEN wU ELSE acc.eigs[k]],
                     calls |-> [k \in DOMAIN acc.calls \cup {Hkey} |->
                                  IF k = Hkey THEN 1 ELSE acc.calls[k]]]
    ELSE acc

\* one turn of the loop over self.obs_queue: acc carries the program, the
\* eigen-cache and the count of diagonalisations
Rotate(acc, e) ==
    LET wires == e.wires IN
    IF e.name = "PauliX" THEN
        [acc EXCEPT !.instrs = apply(@, "Hadamard", wires, <<>>)]
    ELSE IF e.name = "PauliY" THEN
        [acc EXCEPT !.instrs =
            apply(apply(apply(@, "PauliZ", wires, <<>>), "S", wires, <<>>),
                  "Hadamard", wires, <<>>)]
    ELSE IF e.name = "Hadamard" THEN
        [acc EXCEPT !.instrs = apply(@, "RY", wires, <<Angle("-pi/4")>>)]
    ELSE IF e.name = "Hermitian" THEN
        LET H == e.parameters[1]
            Hkey == Flatten(H)
        IN  IF Hkey \in DOMAIN acc.eigs THEN
                LET U == acc.eigs[Hkey].eigvec
                IN  [acc EXCEPT !.instrs =
                        apply(@, "QubitUnitary", wires, <<Matrix(ConjT(U))>>)]
            ELSE
                LET wU == Eigh(H)
                IN  [instrs |-> apply(acc.instrs, "QubitUnitary", wires,
                                      <<Matrix(ConjT(wU.eigvec))>>),
                     eigs |-> [k \in DOMAIN acc.eigs \cup {Hkey} |->
                                  IF k = Hkey THEN wU ELSE acc.eigs[k]],
                     calls |-> [k \in DOMAIN acc.calls \cup {Hkey} |->
                                  IF k = Hkey THEN 1 ELSE acc.calls[k]]]
    ELSE acc

RECURSIVE RotateAll(_, _)
RotateAll(acc, queue) ==
    IF queue = <<>> THEN acc
    ELSE RotateAll(Rotate(acc, queue[1]), Tail(queue))

\* list(set): the orders in which a set may be listed
Orderings(S) ==
    {f \in [1..Cardinality(S) -> S] : \A i, j \in DOMAIN f : i # j => f[i] # f[j]}

\* bitstring_array[:, i]
Column(bitstring_array, i) ==
    [k \in 1..Len(bitstring_array) |-> bitstring_array[k][i]]

\* variant of Extract: the entries of the wires that are not measured this
\* time are kept
ExtractKeeping(qubits, bitstring_array) ==
    [q \in Range(qubits) \cup DOMAIN state |->
        IF q \in Range(qubits)
        THEN Column(bitstring_array, CHOOSE i \in 1..Len(qubits) : qubits[i] = q)
        ELSE state[q]]

\* variant of Extract: the columns are read in the reverse order
ExtractReversed(qubits, bitstring_array) ==
    [q \in Range(qubits) |->
        Column(bitstring_array,
               Len(qubits) + 1 - (CHOOSE i \in 1..Len(qubits) : qubits[i] = q))]

\* the state extracted from the outcome array: qubits[i] -> column i
Extract(qubits, bitstring_array) ==
    [q \in Range(qubits) |->
        Column(bitstring_array, CHOOSE i \in 1..Len(qubits) : qubits[i] = q)]

\* "pyqvm"
Pyqvm == <<"p", "y", "q", "v", "m">>

\* sub in s, for strings
Contains(s, sub) ==
    \E i \in 1..(Len(s) - Len(sub) + 1) : SubSeq(s, i, i + Len(sub) - 1) = sub

\* what the compiler returns when it succeeds
Executable == [kind |-> "executable"]

\* what the backend may answer: the compiler an executable or a failure, the
\* execution a failure or any array of bits of shape [shots, qubits]
CompileAnswers == {Executable, Raise("compile failed")}

RunAnswers(n, width) ==
    {Raise("run failed")} \cup {Array(b) : b \in [1..n -> [1..width -> {0, 1}]]}

\* variant of Execute: a call that fails is made a second time
ExecuteRetrying(name, compiled, ran) ==
    LET once == IF Contains(name, Pyqvm)
                THEN <<[method |-> "run", executable |-> FALSE, ret |-> ran]>>
                ELSE IF IsError(compiled)
                THEN <<[method |-> "compile", ret |-> compiled]>>
                ELSE <<[method |-> "compile", ret |-> compiled],
                       [method |-> "run", executable |-> TRUE, ret |-> ran]>>
    IN  IF IsError(once[Len(once)].ret) THEN Append(once, once[Len(once)])
        ELSE once

\* the calls made on self.qc, in order, each with the answer it got: a call
\* that raises ends pre_measure, so no call follows it
Execute(name, compiled, ran) ==
    IF Contains(name, Pyqvm)
    THEN <<[method |-> "run", executable |-> FALSE, ret |-> ran]>>
    ELSE IF IsError(compiled)
    THEN <<[method |-> "compile", ret |-> compiled]>>
    ELSE <<[method |-> "compile", ret |-> compiled],
           [method |-> "run", executable |-> TRUE, ret |-> ran]>>

\* pre_measure(), run on the observable queue the frontend has set
PreMeasure(queue) ==
    /\ constructed
    /\ last = Idle
    /\ ~Finalized(prog)
    /\ shots <= MaxShots
    /\ LET rotated == RotateAll([instrs |-> prog.instructions, eigs |-> eigs,
                                 calls |-> eigh_calls], queue)
           prag == <<Pragma>> \o (IF active_reset THEN <<RESET>> ELSE <<>>)
           body == prag \o rotated.instrs
       IN  \E qubits \in Orderings(GetQubits(body)) :
           \E compiled \in CompileAnswers, ran \in RunAnswers(shots, Len(qubits)) :
               LET calls == Execute(qc.name, compiled, ran)
                   bitstring_array == calls[Len(calls)].ret
               IN  /\ prog' = [instructions |->
                                   body \o <<Declare(Len(qubits))>>
                                        \o [i \in 1..Len(qubits) |-> MEASURE(qubits[i], i)],
                               num_shots |-> shots]
                   /\ eigs' = rotated.eigs
                   /\ eigh_calls' = rotated.calls
                   /\ qc_calls' = calls
                   /\ IF IsError(bitstring_array)
                      THEN /\ state' = state
                           /\ last' = [op |-> "pre_measure", ret |-> bitstring_array]
                      ELSE /\ state' = Extract(qubits, bitstring_array.v)
                           /\ last' = [op |-> "pre_measure", ret |-> None]
    /\ obs_queue' = queue
    /\ UNCHANGED <<constructed, num_wires, shots, qc, active_reset>>

\* the frontend applies a gate of the circuit
Apply(operation, wires, par) ==
    /\ constructed
    /\ last = Idle
    /\ ~Finalized(prog)
    /\ Len(prog.instructions) < MaxGates
    /\ prog' = [prog EXCEPT !.instructions = apply(@, operation, wires, par)]
    /\ last' = [op |-> "apply", ret |-> None]
    /\ UNCHANGED <<constructed, num_wires, shots, qc, active_reset, eigs,
                   obs_queue, state, eigh_calls, qc_calls>>

\* the frontend starts the next circuit evaluation on an empty program;
\* the reset of the base class may or may not drop the measurement state
Reset ==
    /\ constructed
    /\ last = Idle
    /\ Finalized(prog)
    /\ prog' = EmptyProgram
    /\ state' \in {EmptyMap, state}
    /\ obs_queue' = <<>>
    /\ qc_calls' = <<>>
    /\ last' = [op |-> "reset", ret |-> None]
    /\ UNCHANGED <<constructed, num_wires, shots, qc, active_reset, eigs, eigh_calls>>

\* the active-reset configuration flag is switched on before the first
\* circuit
SetActiveReset ==
    /\ constructed
    /\ last = Idle
    /\ ~active_reset
    /\ shots <= MaxResetShots
    /\ prog = EmptyProgram
    /\ qc_calls = <<>>
    /\ eigs = EmptyMap
    /\ state = EmptyMap
    /\ active_reset' = TRUE
    /\ last' = [op |-> "active_reset", ret |-> None]
    /\ UNCHANGED <<constructed, num_wires, shots, qc, eigs, prog, obs_queue,
                   state, eigh_calls, qc_calls>>

\* the caller takes the result of the call that has returned
Return ==
    /\ last # Idle
    /\ last' = Idle
    /\ UNCHANGED devvars

-----------------------------------------------------------------------------
(* Post-processing of the measured bits *)

\* 1 - 2 * self.state[wire], one value per shot
PlusMinus(col) == [k \in 1..Len(col) |-> RInt(1 - 2 * col[k])]

\* np.mean
Mean(xs) == RDivInt(RSum(xs), Len(xs))

\* np.var: the mean of the squared deviations from the mean
NpVar(xs) ==
    LET m == Mean(xs)
    IN  Mean([k \in 1..Len(xs) |-> RMul(RSub(xs[k], m), RSub(xs[k], m))])

\* w @ probs
Dot(w, probs) == RSum([k \in 1..Len(w) |-> RMul(RInt(w[k]), probs[k])])

\* w ** 2
Squares(w) == [k \in 1..Len(w) |-> w[k] * w[k]]

\* np.sum(2 ** np.arange(len(wires) - 1, -1, -1) * i): the first listed wire
\* is the most significant bit
RECURSIVE BasisIndex(_)
BasisIndex(row) ==
    IF row = <<>> THEN 0
    ELSE row[1] * Pow2(Len(row) - 1) + BasisIndex(Tail(row))

\* np.array([self.state[w] for w in wires]).T: one row per shot; no row at
\* all when no wire is listed
Samples(wires) ==
    IF wires = <<>> THEN <<>>
    ELSE [k \in 1..Len(state[wires[1]]) |-> [j \in 1..Len(wires) |-> state[wires[j]][k]]]

\* variant of probabilities: the tallies are not divided by the shot count
probabilitiesTally(wires) ==
    IF \E j \in 1..Len(wires) : wires[j] \notin DOMAIN state
    THEN Raise("KeyError")
    ELSE LET res == Samples(wires)
         IN  Array([b \in 1..Pow2(Len(wires)) |->
                      RInt(Cardinality({k \in 1..Len(res) : BasisIndex(res[k]) = b - 1}))])

probabilities(wires) ==
    IF \E j \in 1..Len(wires) : wires[j] \notin DOMAIN state
    THEN Raise("KeyError")
    ELSE LET res == Samples(wires)
         IN  Array([b \in 1..Pow2(Len(wires)) |->
                      Rat(Cardinality({k \in 1..Len(res) : BasisIndex(res[k]) = b - 1}),
                          shots)])

\* the multi-qubit branch shared in shape by expval and var
HkeyOf(par) == Flatten(par[1])

expvalMulti(observable, wires, par) ==
    LET probs == probabilities(wires) IN
    IF IsError(probs) THEN probs
    ELSE IF observable = "Hermitian" THEN
        IF HkeyOf(par) \notin DOMAIN eigs THEN Raise("KeyError")
        ELSE LET w == eigs[HkeyOf(par)].eigval
             IN  IF Len(w) # Len(probs.v) THEN Raise("ValueError")
                 ELSE Value(Dot(w, probs.v))
    ELSE None

\* variant of expval: a matrix that is not in the cache is diagonalised
expvalDiagonalizing(observable, wires, par) ==
    IF Len(wires) = 1 THEN
        IF wires[1] \notin DOMAIN state THEN Raise("KeyError")
        ELSE
            LET evZ == Mean(PlusMinus(state[wires[1]]))
                p0 == RDivInt(RAdd(RInt(1), evZ), 2)
                p1 == RDivInt(RSub(RInt(1), evZ), 2)
            IN  IF observable = "Identity" THEN Value(RAdd(p0, p1))
                ELSE IF observable = "Hermitian" THEN
                    LET w == IF HkeyOf(par) \in DOMAIN eigs
                             THEN eigs[HkeyOf(par)].eigval
                             ELSE Eigh(par[1]).eigval
                    IN  Value(RAdd(RMul(RInt(w[1]), p0), RMul(RInt(w[2]), p1)))
                ELSE Value(evZ)
    ELSE expvalMulti(observable, wires, par)

\* variant of expval: the two eigenvalues are paired with the wrong
\* probabilities
expvalSwapped(observable, wires, par) ==
    IF Len(wires) = 1 THEN
        IF wires[1] \notin DOMAIN state THEN Raise("KeyError")
        ELSE
            LET evZ == Mean(PlusMinus(state[wires[1]]))
                p0 == RDivInt(RAdd(RInt(1), evZ), 2)
                p1 == RDivInt(RSub(RInt(1), evZ), 2)
            IN  IF observable = "Identity" THEN Value(RAdd(p0, p1))
                ELSE IF observable = "Hermitian" THEN
                    IF HkeyOf(par) \notin DOMAIN eigs THEN Raise("KeyError")
                    ELSE LET w == eigs[HkeyOf(par)].eigval
                         IN  Value(RAdd(RMul(RInt(w[2]), p0), RMul(RInt(w[1]), p1)))
                ELSE Value(evZ)
    ELSE expvalMulti(observable, wires, par)

\* variant of expval: the mean is taken of the bits, not of 1 - 2 * bit
expvalRawBits(observable, wires, par) ==
    IF Len(wires) = 1 THEN
        IF wires[1] \notin DOMAIN state THEN Raise("KeyError")
        ELSE
            LET evZ == Mean([k \in 1..Len(state[wires[1]]) |-> RInt(state[wires[1]][k])])
                p0 == RDivInt(RAdd(RInt(1), evZ), 2)
                p1 == RDivInt(RSub(RInt(1), evZ), 2)
            IN  IF observable = "Identity" THEN Value(RAdd(p0, p1))
                ELSE IF observable = "Hermitian" THEN
                    IF HkeyOf(par) \notin DOMAIN eigs THEN Raise("KeyError")
                    ELSE LET w == eigs[HkeyOf(par)].eigval
                         IN  Value(RAdd(RMul(RInt(w[1]), p0), RMul(RInt(w[2]), p1)))
                ELSE Value(evZ)
    ELSE expvalMulti(observable, wires, par)

expval(observable, wires, par) ==
    IF Len(wires) = 1 THEN
        IF wires[1] \notin DOMAIN state THEN Raise("KeyError")
        ELSE
            LET evZ == Mean(PlusMinus(state[wires[1]]))
                p0 == RDivInt(RAdd(RInt(1), evZ), 2)
                p1 == RDivInt(RSub(RInt(1), evZ), 2)
            IN  IF observable = "Identity" THEN Value(RAdd(p0, p1))
                ELSE IF observable = "Hermitian" THEN
                    IF HkeyOf(par) \notin DOMAIN eigs THEN Raise("KeyError")
                    ELSE LET w == eigs[HkeyOf(par)].eigval
                         IN  Value(RAdd(RMul(RInt(w[1]), p0), RMul(RInt(w[2]), p1)))
                ELSE Value(evZ)
    ELSE expvalMulti(observable, wires, par)

varMulti(observable, wires, par) ==
    LET probs == probabilities(wires) IN
    IF IsError(probs) THEN probs
    ELSE IF observable = "Hermitian" THEN
        IF HkeyOf(par) \notin DOMAIN eigs THEN Raise("KeyError")
        ELSE LET w == eigs[HkeyOf(par)].eigval
             IN  IF Len(w) # Len(probs.v) THEN Raise("ValueError")
                 ELSE Value(RSub(Dot(Squares(w), probs.v),
                                 RMul(Dot(w, probs.v), Dot(w, probs.v))))
    ELSE None

\* variant of var: the measurement state is read before Identity is
\* recognised
varIdentityLate(observable, wires, par) ==
    IF Len(wires) = 1 THEN
        IF wires[1] \notin DOMAIN state THEN Raise("KeyError")
        ELSE IF observable = "Identity" THEN Value(RInt(0))
        ELSE Value(NpVar(PlusMinus(state[wires[1]])))
    ELSE varMulti(observable, wires, par)

var(observable, wires, par) ==
    IF Len(wires) = 1 THEN
        IF observable = "Identity" THEN Value(RInt(0))
        ELSE IF wires[1] \notin DOMAIN state THEN Raise("KeyError")
        ELSE
            LET varZ == NpVar(PlusMinus(state[wires[1]])) IN
            IF observable \in {"PauliX", "PauliY", "PauliZ", "Hadamard"}
            THEN Value(varZ)
            ELSE
                LET evZ == Mean(PlusMinus(state[wires[1]]))
                    probs == <<RDivInt(RAdd(RInt(1), evZ), 2),
                               RDivInt(RSub(RInt(1), evZ), 2)>>
                IN  IF observable = "Hermitian" THEN
                        IF HkeyOf(par) \notin DOMAIN eigs THEN Raise("KeyError")
                        ELSE LET w == eigs[HkeyOf(par)].eigval
                             IN  IF Len(w) # Len(probs) THEN Raise("ValueError")
                                 ELSE Value(RSub(Dot(Squares(w), probs),
                                                 RMul(Dot(w, probs), Dot(w, probs))))
                    ELSE varMulti(observable, wires, par)
    ELSE varMulti(observable, wires, par)

\* pre_measure has returned normally for the circuit at hand: the frontend
\* asks for statistics only then
Executed ==
    /\ qc_calls # <<>>
    /\ ~IsError(qc_calls[Len(qc_calls)].ret)

\* the calls of the frontend
Expval(observable, wires, par) ==
    /\ constructed
    /\ last = Idle
    /\ Executed
    /\ last' = [op |-> "expval", observable |-> observable, wires |-> wires,
                par |-> par, ret |-> expval(observable, wires, par)]
    /\ UNCHANGED devvars

\* variant of Var: the call uses up the measurement state
VarClearing(observable, wires, par) ==
    /\ constructed
    /\ last = Idle
    /\ Executed
    /\ last' = [op |-> "var", observable |-> observable, wires |-> wires,
                par |-> par, ret |-> var(observable, wires, par)]
    /\ state' = EmptyMap
    /\ UNCHANGED <<constructed, num_wires, shots, qc, active_reset, eigs, prog,
                   obs_queue, eigh_calls, qc_calls>>

Var(observable, wires, par) ==
    /\ constructed
    /\ last = Idle
    /\ Executed
    /\ last' = [op |-> "var", observable |-> observable, wires |-> wires,
                par |-> par, ret |-> var(observable, wires, par)]
    /\ UNCHANGED devvars

Probabilities(wires) ==
    /\ constructed
    /\ last = Idle
    /\ Executed
    /\ last' = [op |-> "probabilities", wires |-> wires, ret |-> probabilities(wires)]
    /\ UNCHANGED devvars

\* a requested sample count: an int or a float with the value num / den
IntN(k) == [int |-> TRUE, num |-> k, den |-> 1]
FloatN(num, den) == [int |-> FALSE, num |-> num, den |-> den]

\* variant of sample: n is not validated
sampleNoCheck(observable, wires, par, n) ==
    IF \E j \in 1..Len(wires) : wires[j] \notin DOMAIN state
    THEN Raise("KeyError")
    ELSE Array([k \in 1..n.num |-> RInt(1 - 2 * state[wires[1]][k])])

\* variant of sample: every shot is returned, whatever n
sampleAllShots(observable, wires, par, n) ==
    IF n.num = 0 THEN Raise("ValueError: n = 0")
    ELSE IF n.num < 0 \/ ~n.int THEN Raise("ValueError: positive integer")
    ELSE IF \E j \in 1..Len(wires) : wires[j] \notin DOMAIN state
    THEN Raise("KeyError")
    ELSE IF observable = "Hermitian" THEN
        IF HkeyOf(par) \notin DOMAIN eigs THEN Raise("KeyError")
        ELSE LET w == eigs[HkeyOf(par)].eigval
                 res == Samples(wires)
             IN  IF \E k \in 1..Len(res) : BasisIndex(res[k]) + 1 > Len(w)
                 THEN Raise("IndexError")
                 ELSE Array([k \in 1..Len(res) |-> RInt(w[BasisIndex(res[k]) + 1])])
    ELSE Array([k \in 1..Len(state[wires[1]]) |-> RInt(1 - 2 * state[wires[1]][k])])

\* sample(observable, wires, par, n): the per-shot outcomes of the first n
\* shots, +-1 for a simple observable and the eigenvalue at the shot's
\* basis-state index for a Hermitian one; n is validated first
sample(observable, wires, par, n) ==
    IF n.num = 0 THEN Raise("ValueError: n = 0")
    ELSE IF n.num < 0 \/ ~n.int THEN Raise("ValueError: positive integer")
    ELSE IF \E j \in 1..Len(wires) : wires[j] \notin DOMAIN state
    THEN Raise("KeyError")
    ELSE IF observable = "Hermitian" THEN
        IF HkeyOf(par) \notin DOMAIN eigs THEN Raise("KeyError")
        ELSE LET w == eigs[HkeyOf(par)].eigval
                 res == Samples(wires)
             IN  IF \E k \in 1..n.num : BasisIndex(res[k]) + 1 > Len(w)
                 THEN Raise("IndexError")
                 ELSE Array([k \in 1..n.num |-> RInt(w[BasisIndex(res[k]) + 1])])
    ELSE Array([k \in 1..n.num |-> RInt(1 - 2 * state[wires[1]][k])])

ValidCount(n) == n.int /\ n.num > 0

Sample(observable, wires, par, n) ==
    /\ constructed
    /\ last = Idle
    /\ Executed
    /\ ValidCount(n) => n.num <= shots
    /\ observable # "Hermitian" => Len(wires) = 1
    /\ last' = [op |-> "sample", observable |-> observable, wires |-> wires,
                par |-> par, n |-> n, ret |-> sample(observable, wires, par, n)]
    /\ UNCHANGED devvars

-----------------------------------------------------------------------------
(* Inputs of the post-processing *)

MatA == <<<<1, 2>>, <<2, 1>>>>
MatB == <<<<3, 0>>, <<0, 1>>>>
MatD == <<<<2, 0, 0, 0>>, <<0, 0, 0, 0>>, <<0, 0, 3, 0>>, <<0, 0, 0, 1>>>>

Matrices == {MatA, MatB, MatD}

SimpleNames == {"PauliX", "PauliY", "PauliZ", "Hadamard", "Identity"}

\* name and parameters of the observables that are asked for
Requests ==
    {[name |-> n, par |-> <<>>] : n \in SimpleNames}
    \cup {[name |-> "Hermitian", par |-> <<M>>] : M \in Matrices}

\* the observables that samples are asked of: the simple ones all take the
\* same path
SampleRequests ==
    {[name |-> n, par |-> <<>>] : n \in {"PauliX", "PauliZ"}}
    \cup {[name |-> "Hermitian", par |-> <<M>>] : M \in {MatA, MatD}}

WireLists == {<<0>>, <<1>>, <<0, 1>>}

ProbWireLists == WireLists \cup {<<>>, <<1, 0>>}

SampleCounts == {IntN(k) : k \in -1..MaxShots} \cup {FloatN(3, 2)}

\* the circuits and observable queues of the frontend
Gates == {Gate("RX", <<0>>, <<Angle("theta")>>)}

Queues ==
    {<<>>,
     <<Observable("PauliZ", <<0>>, <<>>)>>,
     <<Observable("PauliX", <<1>>, <<>>)>>,
     <<Observable("Hermitian", <<0>>, <<MatA>>)>>,
     <<Observable("Hermitian", <<0, 1>>, <<MatD>>)>>,
     <<Observable("Hermitian", <<0>>, <<MatA>>),
       Observable("Hermitian", <<1>>, <<MatA>>)>>,
     <<Observable("PauliY", <<0>>, <<>>),
       Observable("PauliX", <<0>>, <<>>)>>,
     <<Observable("Identity", <<0>>, <<>>),
       Observable("Hadamard", <<1>>, <<>>)>>}

Init ==
    /\ \E s \in 1..MaxShots, name \in {Str2qQvm, Str2qPyqvm} :
          /\ name = Str2qPyqvm => s <= MaxPyqvmShots
          /\ LET d == QVMDevice([kind |-> "str", name |-> name], s, NoKwargs)
             IN  d.kind = "device" /\ Fresh(d)
    /\ last = Idle

Next ==
    \/ \E g \in Gates : Apply(g.name, g.wires, g.par)
    \/ \E queue \in Queues : PreMeasure(queue)
    \/ Reset
    \/ SetActiveReset
    \/ Return
    \/ \E r \in Requests, wires \in WireLists : Expval(r.name, wires, r.par)
    \/ \E r \in Requests, wires \in WireLists : Var(r.name, wires, r.par)
    \/ \E wires \in ProbWireLists : Probabilities(wires)
    \/ \E r \in SampleRequests, wires \in WireLists, n \in SampleCounts :
          Sample(r.name, wires, r.par, n)

Spec == Init /\ [][Next]_vars

-----------------------------------------------------------------------------
(* Helpers of the properties *)

RECURSIVE SumInt(_)
SumInt(s) == IF s = <<>> THEN 0 ELSE s[1] + SumInt(Tail(s))

Measured(wires) == \A j \in 1..Len(wires) : wires[j] \in DOMAIN state

AllBits(w, b) == \A k \in 1..Len(state[w]) : state[w][k] = b

\* the sum over the shots of 1 - 2 * bit on wire w
SignSum(w) == SumInt([k \in 1..Len(state[w]) |-> 1 - 2 * state[w][k]])

\* a digit of s is immediately followed by q or Q
HasDigitsQ(s) == \E i \in 1..Len(s) - 1 : s[i] \in Digits /\ s[i + 1] \in {"q", "Q"}

\* s[i..e] is a whole run of digits that q or Q follows
IsRunBeforeQ(s, i, e) ==
    /\ 1 <= i /\ i <= e /\ e < Len(s)
    /\ \A k \in i..e : s[k] \in Digits
    /\ i = 1 \/ s[i - 1] \notin Digits
    /\ s[e + 1] \in {"q", "Q"}

RECURSIVE Pow10(_)
Pow10(n) == IF n = 0 THEN 1 ELSE 10 * Pow10(n - 1)

Decimal(s, i, e) == SumInt([k \in 1..(e - i + 1) |-> DigitVal(s[i + k - 1]) * Pow10(e - i + 1 - k)])

\* v is an eigenvalue of the matrix M (diagonal, or 2x2)
IsEigenvalue(M, v) ==
    IF IsDiagonal(M) THEN \E i \in 1..Len(M) : M[i][i] = v
    ELSE (M[1][1] - v) * (M[2][2] - v) - M[1][2] * M[2][1] = 0

ConfigErrors == {"ValueError: shots", "ValueError: device string", "ValueError: device type"}

-----------------------------------------------------------------------------
(* Properties *)

\* C1: expval and var of an observable other than Hermitian on two or more
\* wires raise an error and return no value (in particular not None).
C1_UnsupportedObservableRaises ==
    (/\ last.op \in {"expval", "var"}
     /\ last.observable # "Hermitian"
     /\ Len(last.wires) >= 2)
    => IsError(last.ret)

\* C2: construction fails with a ValueError and yields no device when the
\* shot count is not positive, when the device string holds no digit run
\* followed by q or Q, and when the device is neither a string nor a graph;
\* a bad shot count is reported whatever the device argument is.
C2_ConfigurationError ==
    last.op = "init" =>
        LET d == last.device
            noMatch == d.kind = "str" /\ ~HasDigitsQ(d.name)
            noType == d.kind \notin {"str", "graph"}
        IN  /\ (last.shotsArg <= 0 \/ noMatch \/ noType)
                  => (IsError(last.ret) /\ last.ret.err \in ConfigErrors /\ ~constructed)
            /\ last.shotsArg <= 0 => last.ret = Raise("ValueError: shots")
            /\ (last.shotsArg > 0 /\ noMatch) => last.ret = Raise("ValueError: device string")
            /\ (last.shotsArg > 0 /\ noType) => last.ret = Raise("ValueError: device type")

C2_Witness ==
    /\ last.op = "init"
    /\ last.device.kind = "int"
    /\ last.shotsArg <= 0
    /\ last.ret = Raise("ValueError: shots")
    /\ ~constructed

\* C3: a constructed device has as many wires as the graph has nodes, or as
\* the first digit run followed by q or Q in the device string says; a wires
\* keyword argument changes nothing; without a shots argument the shot count
\* is 1024.
C3_WireCount ==
    (last.op = "init" /\ last.ret.kind = "device") =>
        LET d == last.device IN
        /\ constructed
        /\ d.kind = "graph" => num_wires = d.nodes
        /\ d.kind = "str" =>
              \E i \in 1..Len(d.name), e \in 1..Len(d.name) :
                  /\ IsRunBeforeQ(d.name, i, e)
                  /\ \A i2 \in 1..Len(d.name), e2 \in 1..Len(d.name) :
                        IsRunBeforeQ(d.name, i2, e2) => i <= i2
                  /\ num_wires = Decimal(d.name, i, e)
        /\ "wires" \notin DOMAIN last.ret.kwargs
        /\ shots = (IF last.shotsGiven THEN last.shotsArg ELSE 1024)

C3_Witness ==
    /\ last.op = "init"
    /\ constructed
    /\ last.device.kind = "str"
    /\ "wires" \in DOMAIN last.kwargs
    /\ num_wires = 12
    /\ ~last.shotsGiven
    /\ shots = 1024

\* C4: sample with a count n that is zero, negative or not an integer raises
\* a ValueError that depends on n alone, whatever the observable and the
\* measurement state, and returns no samples.
C4_SampleCountError ==
    (last.op = "sample" /\ ~(last.n.int /\ last.n.num > 0)) =>
        last.ret = (IF last.n.num = 0 THEN Raise("ValueError: n = 0")
                    ELSE Raise("ValueError: positive integer"))

C4_Witness ==
    /\ last.op = "sample"
    /\ ~last.n.int
    /\ last.observable = "Hermitian"
    /\ Finalized(prog)
    /\ Measured(last.wires)
    /\ IsError(last.ret)

\* C5: after pre_measure, sample with a positive integer n <= shots on
\* measured wires returns exactly n values; for a Pauli observable the k-th
\* is 1 - 2 * bit_k, which is -1 or +1; for a diagonalised Hermitian
\* observable the k-th is the eigenvalue of the matrix at the basis-state
\* index of shot k.
C5_SampleValues ==
    (/\ last.op = "sample"
     /\ last.n.int /\ last.n.num > 0
     /\ Measured(last.wires)) =>
        LET n == last.n.num
            wires == last.wires
        IN  /\ last.observable \in {"PauliX", "PauliY", "PauliZ"} =>
                  /\ last.ret.kind = "array"
                  /\ Len(last.ret.v) = n
                  /\ \A k \in 1..n :
                        /\ last.ret.v[k] \in {RInt(-1), RInt(1)}
                        /\ last.ret.v[k] = RInt(1 - 2 * state[wires[1]][k])
            /\ (/\ last.observable = "Hermitian"
                /\ HkeyOf(last.par) \in DOMAIN eigs
                /\ Len(last.par[1]) = Pow2(Len(wires))) =>
                  /\ last.ret.kind = "array"
                  /\ Len(last.ret.v) = n
                  /\ \A k \in 1..n :
                        LET idx == IF Len(wires) = 1 THEN state[wires[1]][k]
                                   ELSE 2 * state[wires[1]][k] + state[wires[2]][k]
                        IN  /\ last.ret.v[k][2] = 1
                            /\ IsEigenvalue(last.par[1], last.ret.v[k][1])
                            /\ last.ret.v[k][1] = eigs[HkeyOf(last.par)].eigval[idx + 1]

C5_Witness ==
    /\ last.op = "sample"
    /\ last.observable = "Hermitian"
    /\ last.n = IntN(1)
    /\ shots = 2
    /\ Len(last.wires) = 2
    /\ last.ret.kind = "array"
    /\ last.ret.v = <<RInt(2)>>

\* C6 as stated: for every single-wire simple observable, expval is 1 when
\* every measured bit of the wire is 0 and -1 when every bit is 1.
C6_AllSimple ==
    (/\ last.op = "expval"
     /\ last.observable \in SimpleNames
     /\ Len(last.wires) = 1
     /\ Measured(last.wires)) =>
        /\ AllBits(last.wires[1], 0) => last.ret = Value(RInt(1))
        /\ AllBits(last.wires[1], 1) => last.ret = Value(RInt(-1))

\* C6 amended: for PauliX, PauliY, PauliZ and Hadamard on one wire expval is
\* 1 when every measured bit is 0 and -1 when every bit is 1; for Identity
\* it is 1 in both cases.
C6_PauliHadamardIdentity ==
    (/\ last.op = "expval"
     /\ last.observable \in SimpleNames
     /\ Len(last.wires) = 1
     /\ Measured(last.wires)) =>
        /\ AllBits(last.wires[1], 0) => last.ret = Value(RInt(1))
        /\ AllBits(last.wires[1], 1) =>
              last.ret = Value(RInt(IF last.observable = "Identity" THEN 1 ELSE -1))

C6_Witness ==
    /\ last.op = "expval"
    /\ last.observable = "Hadamard"
    /\ last.wires = <<1>>
    /\ Measured(<<1>>)
    /\ AllBits(1, 1)
    /\ last.ret = Value(RInt(-1))

\* C7 as stated: var of Identity is exactly 0 for every measurement state
\* and every wire argument.
C7_AnyWires ==
    (last.op = "var" /\ last.observable = "Identity") => last.ret = Value(RInt(0))

\* C7 amended: var of Identity is exactly 0 for every measurement state and
\* every single-wire argument, also when the wire has no entry in the
\* measurement state.
C7_SingleWire ==
    (last.op = "var" /\ last.observable = "Identity" /\ Len(last.wires) = 1)
        => last.ret = Value(RInt(0))

C7_Witness ==
    /\ last.op = "var"
    /\ last.observable = "Identity"
    /\ last.wires = <<1>>
    /\ 1 \notin DOMAIN state
    /\ 0 \in DOMAIN state
    /\ last.ret = Value(RInt(0))

\* C8: for a Hermitian observable on one measured wire with cached
\* eigenvalues (w0, w1), and p0 = (1 + <Z>) / 2, p1 = (1 - <Z>) / 2 with <Z>
\* the mean of 1 - 2 * bit: expval is w0 p0 + w1 p1 and var is
\* (w0^2 p0 + w1^2 p1) - (w0 p0 + w1 p1)^2.  With S the sum of 1 - 2 * bit
\* over the N shots, p0 = (N + S) / 2N and p1 = (N - S) / 2N.
C8_HermitianSingleWire ==
    (/\ last.op \in {"expval", "var"}
     /\ last.observable = "Hermitian"
     /\ Len(last.wires) = 1
     /\ Measured(last.wires)
     /\ HkeyOf(last.par) \in DOMAIN eigs
     /\ Len(eigs[HkeyOf(last.par)].eigval) = 2) =>
        LET w0 == eigs[HkeyOf(last.par)].eigval[1]
            w1 == eigs[HkeyOf(last.par)].eigval[2]
            N == Len(state[last.wires[1]])
            S == SignSum(last.wires[1])
            first == w0 * (N + S) + w1 * (N - S)
            second == w0 * w0 * (N + S) + w1 * w1 * (N - S)
        IN  /\ last.ret.kind = "value"
            /\ last.ret.v[2] > 0
            /\ last.op = "expval" =>
                  last.ret.v[1] * 2 * N = last.ret.v[2] * first
            /\ last.op = "var" =>
                  last.ret.v[1] * 4 * N * N
                      = last.ret.v[2] * (second * 2 * N - first * first)

C8_Witness ==
    /\ last.op = "expval"
    /\ last.observable = "Hermitian"
    /\ last.par = <<MatA>>
    /\ last.wires = <<0>>
    /\ Measured(<<0>>)
    /\ ~AllBits(0, 0) /\ ~AllBits(0, 1)
    /\ last.ret = Value(RInt(1))

\* C9: probabilities of N measured wires is a vector of length 2^N whose
\* entry k is the number of shots whose bits, first listed wire most
\* significant, encode k, divided by the shot count; the entries are not
\* negative and sum to 1.
C9_Probabilities ==
    (last.op = "probabilities" /\ Measured(last.wires)) =>
        LET wires == last.wires
            N == Len(wires)
            Code(k) == SumInt([j \in 1..N |-> state[wires[j]][k] * Pow2(N - j)])
            Count(b) == Cardinality({k \in 1..shots : Code(k) = b})
        IN  /\ last.ret.kind = "array"
            /\ Len(last.ret.v) = Pow2(N)
            /\ \A b \in 0..(Pow2(N) - 1) :
                  /\ last.ret.v[b + 1][2] > 0
                  /\ last.ret.v[b + 1][1] >= 0
                  /\ last.ret.v[b + 1][1] * shots = last.ret.v[b + 1][2] * Count(b)
            /\ RSum(last.ret.v) = RInt(1)

\* C9 on at least one wire
C9_ProbabilitiesNonEmpty ==
    (last.op = "probabilities" /\ last.wires # <<>>) => C9_Probabilities

\* C10: the eigen-cache starts empty; an entry is written only by
\* pre_measure, only under a key that is absent, and with one
\* diagonalisation; an entry is never changed or removed; so no matrix is
\* diagonalised more than once.
C10_EigenCache ==
    /\ eigs = EmptyMap
    /\ [][/\ \A k \in DOMAIN eigs : k \in DOMAIN eigs' /\ eigs'[k] = eigs[k]
          /\ eigs' # eigs => last'.op = "pre_measure"
          /\ \A k \in DOMAIN eigh_calls' :
                (k \notin DOMAIN eigh_calls \/ eigh_calls'[k] # eigh_calls[k])
                    => (k \notin DOMAIN eigs /\ eigh_calls'[k] = 1)]_vars
    /\ [](/\ DOMAIN eigh_calls = DOMAIN eigs
          /\ \A k \in DOMAIN eigh_calls : eigh_calls[k] = 1)

C10_Witness ==
    /\ last.op = "pre_measure"
    /\ Len(obs_queue) = 2
    /\ obs_queue[1].name = "Hermitian"
    /\ obs_queue[1].parameters = obs_queue[2].parameters
    /\ Flatten(MatD) \in DOMAIN eigs
    /\ Flatten(MatA) \in DOMAIN eigh_calls
    /\ eigh_calls[Flatten(MatA)] = 1


\* the gates of a program, in order
GatesOf(instructions) ==
    LET IsGate(ins) == ins.type = "gate"
    IN  SelectSeq(instructions, IsGate)

\* the basis-change gates of one observable; U is the eigenvector matrix
\* of a Hermitian one
BasisGates(e, U) ==
    CASE e.name \in {"Identity", "PauliZ"} -> <<>>
      [] e.name = "PauliX" -> <<Gate("Hadamard", e.wires, <<>>)>>
      [] e.name = "PauliY" -> <<Gate("PauliZ", e.wires, <<>>),
                                Gate("S", e.wires, <<>>),
                                Gate("Hadamard", e.wires, <<>>)>>
      [] e.name = "Hadamard" -> <<Gate("RY", e.wires, <<Angle("-pi/4")>>)>>
      [] e.name = "Hermitian" -> <<Gate("QubitUnitary", e.wires, <<Matrix(ConjT(U))>>)>>

\* the basis-change gates of a whole queue, with the eigenvectors of cache
RECURSIVE AllBasisGates(_, _)
AllBasisGates(queue, cache) ==
    IF queue = <<>> THEN <<>>
    ELSE LET e == queue[1]
             U == IF e.name = "Hermitian"
                  THEN cache[Flatten(e.parameters[1])].eigvec ELSE <<>>
         IN  BasisGates(e, U) \o AllBasisGates(Tail(queue), cache)

\* the k-th column of U is an eigenvector of H for the eigenvalue w[k], and
\* is not the zero vector
IsEigenbasis(H, w, U) ==
    /\ Len(w) = Len(H) /\ Len(U) = Len(H)
    /\ \A k \in 1..Len(H) :
          /\ \E i \in 1..Len(H) : U[i][k] # 0
          /\ \A i \in 1..Len(H) :
                SumInt([j \in 1..Len(H) |-> H[i][j] * U[j][k]]) = w[k] * U[i][k]

\* C11: a pre_measure step leaves the gates that were in the program in
\* place and appends after them, observable by observable in queue order,
\* nothing for Identity and PauliZ, Hadamard for PauliX, PauliZ then S then
\* Hadamard for PauliY, RY(-pi/4) for Hadamard, and for Hermitian one
\* QubitUnitary with the conjugate transpose of the eigenvector matrix kept
\* in the cache, all on the observable's wires; no gate is skipped or merged.
C11_BasisChange ==
    [][last'.op = "pre_measure" =>
          /\ GatesOf(prog'.instructions)
                = prog.instructions \o AllBasisGates(obs_queue', eigs')
          /\ \A i \in 1..Len(obs_queue') :
                obs_queue'[i].name = "Hermitian" =>
                    LET H == obs_queue'[i].parameters[1]
                    IN  IsEigenbasis(H, eigs'[Flatten(H)].eigval,
                                     eigs'[Flatten(H)].eigvec)]_vars

C11_Witness ==
    /\ last.op = "pre_measure"
    /\ Len(obs_queue) = 2
    /\ obs_queue[1].name = "PauliY"
    /\ obs_queue[2].name = "PauliX"
    /\ obs_queue[2].wires = obs_queue[1].wires
    /\ Len(prog.instructions) >= 6
    /\ prog.instructions[2].name = "RX"
    /\ prog.instructions[3].name = "PauliZ"
    /\ prog.instructions[6].name = "Hadamard"

\* the array of bits the execution of this circuit has returned
Outcome == qc_calls[Len(qc_calls)].ret.v

\* C12: the flag active_reset is false after construction, and a program
\* that pre_measure has finalised is, in this order: the pragma
\* INITIAL_REWIRING "PARTIAL"; RESET if and only if active_reset; the gates;
\* the declaration of ro with one bit per distinct qubit of the gates; one
\* MEASURE per such qubit, the i-th into ro[i]; its shot count is
\* self.shots; and once the execution has returned, the state of the qubit
\* measured into ro[i] is column i of the outcome array.
C12_ProgramOrder ==
    /\ ~active_reset
    /\ [](Finalized(prog) =>
            LET ins == prog.instructions
                r == IF active_reset THEN 1 ELSE 0
                gates == GatesOf(ins)
                g == Len(gates)
                touched == GetQubits(gates)
                n == Cardinality(touched)
            IN  /\ Len(ins) = 1 + r + g + 1 + n
                /\ ins[1] = Pragma
                /\ active_reset => ins[2] = RESET
                /\ ~active_reset => \A i \in 1..Len(ins) : ins[i] # RESET
                /\ \A i \in 1..g : ins[1 + r + i] = gates[i]
                /\ ins[2 + r + g] = Declare(n)
                /\ \A i \in 1..n :
                      /\ ins[2 + r + g + i].type = "measure"
                      /\ ins[2 + r + g + i].ro = i
                      /\ ins[2 + r + g + i].qubit \in touched
                /\ \A i, j \in 1..n :
                      i # j => ins[2 + r + g + i].qubit # ins[2 + r + g + j].qubit
                /\ prog.num_shots = shots
                /\ Executed =>
                      \A i \in 1..n :
                          state[ins[2 + r + g + i].qubit] = Column(Outcome, i))

C12_Witness ==
    /\ Executed
    /\ active_reset
    /\ prog.instructions[2] = RESET
    /\ Len(prog.instructions) = 7
    /\ prog.instructions[3].name = "RX"
    /\ prog.instructions[6] = MEASURE(1, 1)
    /\ prog.instructions[7] = MEASURE(0, 2)
    /\ state[0] # state[1]
    /\ last.op = "pre_measure"

\* the calls of one method among the calls made on self.qc
CallsOf(method) == {i \in 1..Len(qc_calls) : qc_calls[i].method = method}

\* C13: the calls one pre_measure makes on the backend are, on a backend
\* whose name contains "pyqvm", one run of the uncompiled program and no
\* compile; on any other backend one compile and then one run of the
\* executable, the run being left out when the compile has failed.  No call
\* is repeated: a failed call is the last one, and pre_measure raises its
\* error; when no call fails pre_measure returns normally.
C13_OneExecution ==
    qc_calls # <<>> =>
        LET n == Len(qc_calls)
            compiles == Cardinality(CallsOf("compile"))
            runs == Cardinality(CallsOf("run"))
        IN  /\ qc.name = Str2qPyqvm =>
                  /\ compiles = 0 /\ runs = 1
                  /\ ~qc_calls[1].executable
            /\ qc.name = Str2qQvm =>
                  /\ compiles = 1
                  /\ qc_calls[1].method = "compile"
                  /\ runs = (IF IsError(qc_calls[1].ret) THEN 0 ELSE 1)
                  /\ runs = 1 => qc_calls[2].method = "run" /\ qc_calls[2].executable
            /\ \A i \in 1..(n - 1) : ~IsError(qc_calls[i].ret)
            /\ last.op = "pre_measure" =>
                  IF IsError(qc_calls[n].ret) THEN last.ret = qc_calls[n].ret
                  ELSE last.ret = None

C13_Witness ==
    /\ last.op = "pre_measure"
    /\ IsError(last.ret)
    /\ qc.name = Str2qQvm
    /\ Len(qc_calls) = 2
    /\ qc_calls[1].ret = Executable
    /\ qc_calls[2].ret = last.ret
    /\ Finalized(prog)

\* C14: a pre_measure step that returns normally leaves a measurement state
\* whose keys are exactly the qubits the gates of this program act on; each
\* key maps to the column of the outcome array of its MEASURE instruction,
\* of length self.shots; no key of the state before the step is kept unless
\* the new program touches it, and then it maps to the new column.
C14_StateRebuilt ==
    [][(last'.op = "pre_measure" /\ last'.ret = None) =>
          LET touched == GetQubits(GatesOf(prog'.instructions))
              arr == qc_calls'[Len(qc_calls')].ret.v
          IN  /\ DOMAIN state' = touched
              /\ \A q \in DOMAIN state : q \notin touched => q \notin DOMAIN state'
              /\ \A q \in touched :
                    /\ Len(state'[q]) = shots
                    /\ \E i \in 1..Cardinality(touched) :
                          /\ MEASURE(q, i) \in Range(prog'.instructions)
                          /\ state'[q] = Column(arr, i)]_vars

C14_Witness ==
    /\ last.op = "pre_measure"
    /\ last.ret = None
    /\ DOMAIN state = {1}
    /\ Len(state[1]) = 2
    /\ Flatten(MatD) \in DOMAIN eigs
    /\ obs_queue = <<Observable("PauliX", <<1>>, <<>>)>>

\* (p0, p1) as expval and var derive them for one wire: evZ is the mean of
\* 1 - 2 * bit, p0 = (1 + evZ) / 2 and p1 = (1 - evZ) / 2
SingleWireProbs(w) ==
    LET evZ == Mean(PlusMinus(state[w]))
    IN  <<RDivInt(RAdd(RInt(1), evZ), 2), RDivInt(RSub(RInt(1), evZ), 2)>>

\* C15: for every wire w of a measurement state that pre_measure has just
\* produced, (p0, p1) derived from the mean of 1 - 2 * bit is
\* probabilities([w]); and expval and var of a cached 2x2 Hermitian matrix
\* on one measured wire return the values of the multi-wire formulas,
\* w @ probs and (w ** 2) @ probs - (w @ probs) ** 2 with
\* probs = probabilities([w]).
C15_EstimatorsAgree ==
    /\ last.op = "pre_measure" =>
          \A w \in DOMAIN state :
              probabilities(<<w>>) = Array(SingleWireProbs(w))
    /\ (/\ last.op \in {"expval", "var"}
        /\ last.observable = "Hermitian"
        /\ Len(last.wires) = 1
        /\ Measured(last.wires)
        /\ Flatten(last.par[1]) \in DOMAIN eigs
        /\ Len(last.par[1]) = 2) =>
          /\ probabilities(last.wires) = Array(SingleWireProbs(last.wires[1]))
          /\ last.ret.kind = "value"
          /\ last.op = "expval" =>
                last.ret = expvalMulti("Hermitian", last.wires, last.par)
          /\ last.op = "var" =>
                last.ret = varMulti("Hermitian", last.wires, last.par)

C15_Witness ==
    /\ last.op = "var"
    /\ last.observable = "Hermitian"
    /\ last.wires = <<0>>
    /\ last.par = <<MatA>>
    /\ 0 \in DOMAIN state
    /\ state[0] = <<0, 1>>
    /\ probabilities(<<0>>) = Array(<<Rat(1, 2), Rat(1, 2)>>)
    /\ last.ret = Value(RInt(4))
    /\ last.ret = varMulti("Hermitian", <<0>>, <<MatA>>)

\* C16: a step of expval, var or probabilities, whether it returns a value
\* or raises, changes no field of the device (measurement state,
\* eigen-cache, program, shot count and the rest); the eigen-cache changes
\* only in a pre_measure step and the measurement state only in a
\* pre_measure step or when the frontend resets the device for the next
\* circuit; and the result just returned is the result the same call with
\* the same arguments returns again.
C16_ReadOnly ==
    /\ [][/\ last'.op \in {"expval", "var", "probabilities"} =>
                /\ state' = state /\ eigs' = eigs /\ prog' = prog /\ shots' = shots
                /\ UNCHANGED devvars
          /\ eigs' # eigs => last'.op = "pre_measure"
          /\ state' # state => last'.op \in {"pre_measure", "reset"}]_vars
    /\ [](/\ last.op = "expval" =>
                last.ret = expval(last.observable, last.wires, last.par)
          /\ last.op = "var" =>
                last.ret = var(last.observable, last.wires, last.par)
          /\ last.op = "probabilities" =>
                last.ret = probabilities(last.wires))

C16_Witness ==
    /\ last.op = "var"
    /\ last.observable = "Hermitian"
    /\ last.par = <<MatB>>
    /\ IsError(last.ret)
    /\ DOMAIN state = {0, 1}
    /\ last.wires = <<0, 1>>
    /\ Flatten(MatD) \in DOMAIN eigs
    /\ Finalized(prog)

\* some gate of the program acts on wire w
GateOn(w) ==
    \E i \in 1..Len(prog.instructions) :
        /\ prog.instructions[i].type = "gate"
        /\ w \in Range(prog.instructions[i].wires)

\* the program measures wire w
MeasureOn(w) ==
    \E i \in 1..Len(prog.instructions) :
        /\ prog.instructions[i].type = "measure"
        /\ prog.instructions[i].qubit = w

\* C17: once pre_measure has returned, a wire is measured only if a gate of
\* the program acts on it.  A wire on which no gate acts (one that only
\* Identity or PauliZ observables of the queue name, since they add no
\* gate) has no MEASURE instruction and no entry in the measurement state,
\* and expval, probabilities and var of an observable other than Identity
\* on wires that include it raise a KeyError.
C17_UnmeasuredWire ==
    Executed =>
        \A w \in 0..(num_wires - 1) :
            /\ MeasureOn(w) => GateOn(w)
            /\ w \in DOMAIN state => GateOn(w)
            /\ ~GateOn(w) =>
                  /\ ~MeasureOn(w)
                  /\ w \notin DOMAIN state
                  /\ (/\ last.op \in {"expval", "probabilities"}
                      /\ w \in Range(last.wires)) => last.ret = Raise("KeyError")
                  /\ (/\ last.op = "var"
                      /\ last.observable # "Identity"
                      /\ w \in Range(last.wires)) => last.ret = Raise("KeyError")

C17_Witness ==
    /\ Executed
    /\ obs_queue = <<Observable("Identity", <<0>>, <<>>),
                     Observable("Hadamard", <<1>>, <<>>)>>
    /\ ~GateOn(0)
    /\ MeasureOn(1)
    /\ last.op = "expval"
    /\ last.observable = "Identity"
    /\ last.wires = <<0>>
    /\ last.ret = Raise("KeyError")

\* the eigenvalue of the cached matrix M that each shot yields on wires
ShotEigenvalues(M, wires) ==
    LET res == Samples(wires)
    IN  [k \in 1..Len(res) |-> eigs[Flatten(M)].eigval[BasisIndex(res[k]) + 1]]

\* some observable of the queue carries the matrix M
InQueue(M) ==
    \E i \in 1..Len(obs_queue) :
        obs_queue[i].name = "Hermitian" /\ obs_queue[i].parameters[1] = M

\* C18: expval and var never diagonalise and never write the eigen-cache.
\* For a Hermitian matrix that is not in the cache they raise a KeyError.
\* For a matrix that is in the cache, whether or not the current queue
\* carries it, on measured wires whose number fits its dimension they
\* return a value: the mean over the shots of the cached eigenvalue of the
\* shot, and for var the mean of its square minus the square of the mean.
C18_NoDiagonalisation ==
    /\ [][last'.op \in {"expval", "var"} =>
              eigs' = eigs /\ eigh_calls' = eigh_calls]_vars
    /\ []((last.op \in {"expval", "var"} /\ last.observable = "Hermitian") =>
            LET M == last.par[1] IN
            /\ Flatten(M) \notin DOMAIN eigs => last.ret = Raise("KeyError")
            /\ (/\ Flatten(M) \in DOMAIN eigs
                /\ Measured(last.wires)
                /\ Len(M) = Pow2(Len(last.wires))) =>
                  LET ev == ShotEigenvalues(M, last.wires)
                      sum == SumInt(ev)
                      sumsq == SumInt([k \in 1..Len(ev) |-> ev[k] * ev[k]])
                  IN  /\ last.ret.kind = "value"
                      /\ last.op = "expval" => last.ret.v = Rat(sum, shots)
                      /\ last.op = "var" =>
                            last.ret.v = Rat(shots * sumsq - sum * sum, shots * shots))

C18_Witness ==
    /\ last.op = "expval"
    /\ last.observable = "Hermitian"
    /\ last.par = <<MatA>>
    /\ Flatten(MatA) \in DOMAIN eigs
    /\ ~InQueue(MatA)
    /\ obs_queue = <<Observable("PauliX", <<1>>, <<>>)>>
    /\ last.wires = <<1>>
    /\ shots = 2
    /\ last.ret = Value(RInt(-1))

=============================================================================
